---------------------------- MODULE Spec2Model ----------------------------
(***************************************************************************)
(* Month-by-month investment simulation of thibautvalour/PEA_simulation:   *)
(* DCAStrategy (two buckets: capped "PEA" account and taxable account) and *)
(* LivretAStrategy (fixed-income compounding), src/src/strategies.py.      *)
(*                                                                         *)
(* Arithmetic.  The program computes on Python numbers.  The model is      *)
(* exact: every amount of money is an integer number of minor units, one   *)
(* currency unit being FeeDen * TaxDen minor units, fees are entry_fee /   *)
(* FeeDen and exit_fee / FeeDen, tax rates are rate / TaxDen, so that all  *)
(* products the share engine forms are integers.  The fixed-income engine  *)
(* divides cash by the price; its units are exact fractions <<n, d>>.      *)
(***************************************************************************)
EXTENDS Integers, Sequences, FiniteSets, TLC

\* ------------------------------------------------------------- bounds
MaxSteps == 24          \* longest observation sequence explored
PriceHold == 8          \* an observed price is held for PriceHold observations
FeeDen == 4             \* fees are multiples of 1/FeeDen
TaxDen == 4             \* tax rates are multiples of 1/TaxDen
MaxRuns == 2            \* calls of simulate_investment_strategy on one object
MaxRerunLen == 3        \* longest series a second call is explored on
MaxMonths == 4          \* longest series of rates the Livret A loader is given

\* the contribution is bumped every BumpPeriod observations
BumpPeriod == 12

\* observed prices (currency units); -1 and 0 are the malformed observations
Prices == {-1, 0, 1, 2}
InitialCashValues == {0, 3, 5}
ContributionValues == {0, 2}
BumpValues == {0, 1}
LimitValues == {0, 3}
\* <<initial_cash, initial_monthly_contribution, yearly_bump>> outside the
\* interface's range: one negative parameter each
NegativeParameterCases == {<<0 - 3, 0, 0>>, <<3, 0 - 2, 0>>, <<3, 2, 0 - 1>>}
ParameterCases ==
    (InitialCashValues \X ContributionValues \X BumpValues)
        \cup NegativeParameterCases
\* <<entry_fee, exit_fee>> of params[ticker], in FeeDen-ths
FeeValues == {<<0, 0>>, <<1, 2>>}
TaxationModes == {"PEA", "Aucune"}

\* ------------------------------------------------------------- numbers
\* an amount given in currency units, in minor units
Money(x) == x * FeeDen * TaxDen

Min(a, b) == IF a <= b THEN a ELSE b
Max(a, b) == IF a >= b THEN a ELSE b

\* Python's a // b (floor of the quotient), b # 0
FloorDiv(a, b) == IF b > 0 THEN a \div b ELSE (0 - a) \div (0 - b)

RECURSIVE GCD(_, _)
GCD(a, b) == IF b = 0 THEN a ELSE GCD(b, a % b)
Abs(a) == IF a < 0 THEN 0 - a ELSE a

\* exact fractions <<n, d>>, d > 0, in lowest terms
Frac(n, d) ==
    LET s == IF d < 0 THEN 0 - 1 ELSE 1
        g == GCD(Abs(n), Abs(d))
    IN  IF n = 0 THEN <<0, 1>> ELSE <<(s * n) \div g, (s * d) \div g>>
FracAdd(x, y) == Frac(x[1] * y[2] + y[1] * x[2], x[2] * y[2])
FracMul(x, k) == Frac(x[1] * k, x[2])
FracTimes(x, y) == Frac(x[1] * y[1], x[2] * y[2])
FracDiv(x, y) == Frac(x[1] * y[2], x[2] * y[1])

Last(s) == s[Len(s)]

\* ------------------------------------------------------------- state
VARIABLES
    kind,                         \* "DCA" | "Livret": the strategy class
    pc,                           \* "ready" | "stepping" | "finalized" | "error"
    params,                       \* src.config.params, read-only
    taxation_mode, initial_cash, initial_monthly_contribution, yearly_bump,
    monthly_prices,               \* raw observed prices consumed so far
    idx,                          \* number of loop iterations completed
    monthly_contrib,
    pea_cash, taxable_cash, pea_shares, taxable_shares,
    entry_price,                  \* fee-inclusive price of the first observation
    pea_contrib, taxable_contrib, price, new_pea_shares, new_taxable_shares,
    pea_exit, taxable_exit,       \* the buckets' exit values of the last step
    cash, shares,                 \* LivretAStrategy locals
    monthly_contributions, total_invested_cash, portfolio_values, exit_values,
    pea_invested, taxable_invested,
    run,                          \* ordinal of the call of simulate_investment_strategy
    loader_pc,                    \* LivretADataLoader: "idle" | "loaded" | "ready" | "error"
    monthly_rates,                \* its "monthly_rate" column, exact fractions
    adjusted_close,               \* its "Adjusted Close" column, exact fractions
    pea_paid, taxable_paid,       \* history: paid for the shares of each bucket
    shares_owned, available_cash, \* locals of the single-account engines
    spent,                        \* history: paid for shares_owned
    scheduled,                    \* the strategy object whose step runs next
    objects                       \* the state owned by the objects not scheduled

loader == <<loader_pc, monthly_rates, adjusted_close>>
inputs == <<kind, params, taxation_mode, initial_cash,
            initial_monthly_contribution, yearly_bump>>
dcaLocals == <<pea_cash, taxable_cash, pea_shares, taxable_shares,
               pea_contrib, taxable_contrib, new_pea_shares, new_taxable_shares,
               pea_exit, taxable_exit>>
livretLocals == <<cash, shares>>
results == <<monthly_contributions, total_invested_cash, portfolio_values,
             exit_values, pea_invested, taxable_invested>>
bucketPaid == <<pea_paid, taxable_paid>>
singleLocals == <<shares_owned, available_cash, spent>>
scheduling == <<scheduled, objects>>
vars == <<inputs, pc, monthly_prices, idx, monthly_contrib, entry_price, price,
          dcaLocals, livretLocals, results, run, loader, bucketPaid,
          singleLocals, scheduling>>

\* ------------------------------------------------------------- prices
\* row["Adjusted Close"] * (1 + entry_fee), in minor units
BuyPrice(p) == p * (FeeDen + params.entry_fee) * TaxDen
\* the exit fee added to the price instead of deducted
SellPrice_plusfee(p) == p * (FeeDen + params.exit_fee) * TaxDen

\* stock_price * (1 - exit_fee), in minor units
SellPrice(p) == p * (FeeDen - params.exit_fee) * TaxDen
\* row["Adjusted Close"], in minor units
StockPrice(p) == Money(p)

\* The observation read by loop iteration idx is p.  An observation not yet
\* revealed is chosen freely when a new holding period begins and repeats
\* the previous one otherwise; a later call on the same object reads the
\* series of the first call and nothing more.
ObservationAt(p) ==
    IF Len(monthly_prices) > idx
    THEN p = monthly_prices[idx + 1]
    ELSE run = 1 /\ ((idx % PriceHold # 0) => (p = Last(monthly_prices)))
Reveal(p) ==
    IF Len(monthly_prices) > idx THEN monthly_prices ELSE Append(monthly_prices, p)

\* ------------------------------------------------------------- DCAStrategy
\* the lump sum's split between the buckets, <<pea_initial, taxable_initial>>
initial_split ==
    IF taxation_mode = "PEA"
    THEN LET pea_initial == Min(initial_cash, params.PEA_limit)
         IN  <<pea_initial, initial_cash - pea_initial>>
    ELSE <<0, initial_cash>>

\* the // of line 94 or 95 divides by zero
init_accounts_raises(ep) ==
    ep = 0 /\ (initial_split[1] > 0 \/ initial_split[2] > 0)

\* the remainder of the lump sum's first purchase is dropped
init_accounts_nocash(ep) ==
    LET pea_initial == initial_split[1]
        taxable_initial == initial_split[2]
    IN  [pea_shares |-> IF pea_initial > 0 THEN FloorDiv(pea_initial, ep) ELSE 0,
         taxable_shares |-> IF taxable_initial > 0 THEN FloorDiv(taxable_initial, ep) ELSE 0,
         pea_cash |-> 0,
         taxable_cash |-> 0]

init_accounts(ep) ==
    LET pea_initial == initial_split[1]
        taxable_initial == initial_split[2]
        ps == IF pea_initial > 0 THEN FloorDiv(pea_initial, ep) ELSE 0
        ts == IF taxable_initial > 0 THEN FloorDiv(taxable_initial, ep) ELSE 0
    IN  [pea_cash |-> pea_initial - ps * ep,
         taxable_cash |-> taxable_initial - ts * ep,
         pea_shares |-> ps,
         taxable_shares |-> ts]

\* the yearly bump applied once the 12th observation is over
bumped_contribution_late(mc, i) ==
    IF i % BumpPeriod = 0 /\ i > 0 THEN mc + yearly_bump ELSE mc

\* the contribution of iteration i (0-based) given the previous one
bumped_contribution(mc, i) ==
    IF (i + 1) % BumpPeriod = 0 THEN mc + yearly_bump ELSE mc

\* the remaining capacity not floored at 0
split_contribution_nomax(mc) ==
    IF taxation_mode # "PEA"
    THEN <<0, mc>>
    ELSE LET current_pea_invested ==
                 IF pea_invested # <<>> THEN Last(pea_invested) ELSE 0
             pc_ == Min(mc, params.PEA_limit - current_pea_invested)
         IN  <<pc_, mc - pc_>>

\* the cap applied whatever the taxation mode
split_contribution_nomode(mc) ==
    LET current_pea_invested ==
            IF pea_invested # <<>> THEN Last(pea_invested) ELSE 0
        pc_ == Min(mc, Max(0, params.PEA_limit - current_pea_invested))
    IN  <<pc_, mc - pc_>>

\* the remaining capacity taken as the whole cap at every step
split_contribution_nocurrent(mc) ==
    IF taxation_mode # "PEA"
    THEN <<0, mc>>
    ELSE LET pc_ == Min(mc, Max(0, params.PEA_limit))
         IN  <<pc_, mc - pc_>>

split_contribution(mc) ==
    IF taxation_mode # "PEA"
    THEN <<0, mc>>
    ELSE LET current_pea_invested ==
                 IF pea_invested # <<>> THEN Last(pea_invested) ELSE 0
             remaining_capacity ==
                 Max(0, params.PEA_limit - current_pea_invested)
             pc_ == Min(mc, remaining_capacity)
         IN  <<pc_, mc - pc_>>

\* the number of shares rounded up
buy_shares_ceil(pr, pcash, tcash) ==
    IF pr <= 0 THEN <<0, 0>>
    ELSE <<0 - FloorDiv(0 - pcash, pr), 0 - FloorDiv(0 - tcash, pr)>>

buy_shares(pr, pcash, tcash) ==
    IF pr <= 0 THEN <<0, 0>> ELSE <<FloorDiv(pcash, pr), FloorDiv(tcash, pr)>>

\* the shares paid at the observed price, the entry fee forgotten
cash_after_purchase_nofee(c, n, pr) ==
    c - n * ((pr * FeeDen) \div (FeeDen + params.entry_fee))

\* cash left in a bucket after buying n shares at pr
cash_after_purchase(c, n, pr) == c - n * pr

\* the previous cumulative amounts forgotten
track_values_noacc(pcontrib, tcontrib) ==
    LET base_pea == IF taxation_mode = "PEA" /\ pea_invested = <<>>
                    THEN Min(initial_cash, params.PEA_limit) ELSE 0
        base_taxable == IF taxable_invested # <<>> THEN 0
                        ELSE IF taxation_mode = "PEA"
                             THEN Max(0, initial_cash - params.PEA_limit)
                             ELSE initial_cash
    IN  <<pcontrib + base_pea, tcontrib + base_taxable>>

\* the first step records the lump sum alone, its contribution left out
track_values_nofirst(pcontrib, tcontrib) ==
    LET first == pea_invested = <<>>
        base_pea == IF taxation_mode = "PEA"
                    THEN Min(initial_cash, params.PEA_limit) ELSE 0
        base_taxable == IF taxation_mode = "PEA"
                        THEN Max(0, initial_cash - params.PEA_limit)
                        ELSE initial_cash
    IN  IF first THEN <<base_pea, base_taxable>>
        ELSE <<Last(pea_invested) + pcontrib, Last(taxable_invested) + tcontrib>>

\* <<current_pea, current_taxable>> appended by _track_values
track_values(pcontrib, tcontrib) ==
    LET initial_pea == IF taxation_mode = "Aucune"
                       THEN initial_cash
                       ELSE Min(initial_cash, params.PEA_limit)
        initial_taxable == IF taxation_mode = "Aucune"
                           THEN 0
                           ELSE Max(0, initial_cash - params.PEA_limit)
        base_pea == IF taxation_mode = "PEA"
                    THEN (IF pea_invested = <<>> THEN initial_pea ELSE 0)
                    ELSE 0
        base_taxable == IF taxation_mode = "PEA"
                        THEN (IF taxable_invested = <<>> THEN initial_taxable ELSE 0)
                        ELSE (IF taxable_invested = <<>> THEN initial_cash ELSE 0)
        current_pea == (IF pea_invested # <<>> THEN Last(pea_invested) ELSE 0)
                       + pcontrib + base_pea
        current_taxable == (IF taxable_invested # <<>> THEN Last(taxable_invested) ELSE 0)
                           + tcontrib + base_taxable
    IN  <<current_pea, current_taxable>>

\* the uninvested cash left out of the portfolio
calc_portfolio_value_nocash(sp, ps, ts, pcash, tcash) == (ps + ts) * sp

calc_portfolio_value(sp, ps, ts, pcash, tcash) == (ps + ts) * sp + pcash + tcash

\* one rate for both buckets
tax_rate_of_same(account_type) == params.exit_tax_rate

tax_rate_of(account_type) ==
    IF account_type = "pea" THEN params.exit_tax_rate
                            ELSE params.taxable_account_tax_rate

\* losses taxed like gains
apply_tax_onloss(value, gain, invested, account_type) ==
    IF taxation_mode = "Aucune"
    THEN value
    ELSE (gain * (TaxDen - tax_rate_of(account_type))) \div TaxDen + invested

\* the tax taken on the whole liquidation value
apply_tax_onvalue(value, gain, invested, account_type) ==
    IF gain <= 0 \/ taxation_mode = "Aucune"
    THEN value
    ELSE (value * (TaxDen - tax_rate_of(account_type))) \div TaxDen

apply_tax(value, gain, invested, account_type) ==
    IF gain <= 0 \/ taxation_mode = "Aucune"
    THEN value
    ELSE (gain * (TaxDen - tax_rate_of(account_type))) \div TaxDen + invested

\* liquidation value of a bucket at the fee-inclusive sell price
liquidation_value(n, sell, c) == n * sell + c

\* <<pea_exit, taxable_exit>>; pinv and tinv are the lists after _track_values
bucket_exit_values(p, ps, ts, pcash, tcash, i, pinv, tinv) ==
    LET sell_price == SellPrice(p)
        pea_value == liquidation_value(ps, sell_price, pcash)
        pea_invested_amt == IF pinv # <<>> THEN pinv[i + 1] ELSE 0
        taxable_value == liquidation_value(ts, sell_price, tcash)
        taxable_invested_amt == IF tinv # <<>> THEN tinv[i + 1] ELSE 0
    IN  <<apply_tax(pea_value, pea_value - pea_invested_amt, pea_invested_amt, "pea"),
          apply_tax(taxable_value, taxable_value - taxable_invested_amt,
                    taxable_invested_amt, "taxable")>>

calc_exit_value(p, ps, ts, pcash, tcash, i, pinv, tinv) ==
    LET e == bucket_exit_values(p, ps, ts, pcash, tcash, i, pinv, tinv)
    IN  e[1] + e[2]

\* ------------------------------------------------------------- behaviour
\* params of a strategy that reads none (LivretAStrategy)
NoParams == [entry_fee |-> 0, exit_fee |-> 0, PEA_limit |-> 0,
             exit_tax_rate |-> 0, taxable_account_tax_rate |-> 0]

\* a freshly constructed strategy object, before simulate_investment_strategy
Init ==
    /\ kind \in {"DCA", "Livret"}
    /\ \E c \in ParameterCases :
           /\ initial_cash = Money(c[1])
           /\ initial_monthly_contribution = Money(c[2])
           /\ yearly_bump = Money(c[3])
    /\ IF kind = "DCA"
       THEN /\ taxation_mode \in TaxationModes
            /\ \E f \in FeeValues, l \in LimitValues :
                   params = [entry_fee |-> f[1], exit_fee |-> f[2],
                             PEA_limit |-> Money(l),
                             exit_tax_rate |-> 1,
                             taxable_account_tax_rate |-> 2]
       ELSE /\ taxation_mode = "none"
            /\ params = NoParams
    /\ pc = "ready"
    /\ monthly_prices = <<>>
    /\ idx = 0
    /\ monthly_contrib = 0
    /\ entry_price = 0
    /\ price = 0
    /\ pea_cash = 0 /\ taxable_cash = 0 /\ pea_shares = 0 /\ taxable_shares = 0
    /\ pea_contrib = 0 /\ taxable_contrib = 0
    /\ new_pea_shares = 0 /\ new_taxable_shares = 0
    /\ pea_exit = 0 /\ taxable_exit = 0
    /\ cash = 0 /\ shares = <<0, 1>>
    /\ monthly_contributions = <<>> /\ total_invested_cash = <<>>
    /\ portfolio_values = <<>> /\ exit_values = <<>>
    /\ pea_invested = <<>> /\ taxable_invested = <<>>
    /\ run = 1
    /\ loader_pc = "idle" /\ monthly_rates = <<>> /\ adjusted_close = <<>>
    /\ pea_paid = 0 /\ taxable_paid = 0
    /\ shares_owned = 0 /\ available_cash = 0 /\ spent = 0
    /\ scheduled = 1 /\ objects = <<>>

\* DCAStrategy.simulate_investment_strategy on an empty series:
\* monthly_prices.iloc[0] raises in _get_entry_price (and again in its
\* except branch).
DCAEmptySeries ==
    /\ kind = "DCA" /\ pc = "ready"
    /\ pc' = "error"
    /\ UNCHANGED <<inputs, bucketPaid, singleLocals, scheduling, run, loader, monthly_prices, idx, monthly_contrib, entry_price,
                   price, dcaLocals, livretLocals, results>>

\* lines 37-41 on a series whose first observation is p: the entry price,
\* _init_accounts and the first monthly contribution
DCAStart(p) ==
    LET ep == BuyPrice(p) IN
    /\ entry_price' = ep
    /\ IF init_accounts_raises(ep)
       THEN /\ pc' = "error"
            /\ UNCHANGED <<pea_cash, taxable_cash, pea_shares,
                           taxable_shares, monthly_contrib, bucketPaid>>
       ELSE LET a == init_accounts(ep) IN
            /\ pc' = "stepping"
            /\ pea_paid' = a.pea_shares * ep
            /\ taxable_paid' = a.taxable_shares * ep
            /\ pea_cash' = a.pea_cash
            /\ taxable_cash' = a.taxable_cash
            /\ pea_shares' = a.pea_shares
            /\ taxable_shares' = a.taxable_shares
            /\ monthly_contrib' = initial_monthly_contribution

\* DCAStrategy.simulate_investment_strategy up to the loop: the entry
\* price of the first observation and _init_accounts.
DCABegin ==
    /\ kind = "DCA" /\ pc = "ready"
    /\ \E p \in Prices :
         /\ monthly_prices' = <<p>>
         /\ DCAStart(p)
    /\ UNCHANGED <<inputs, singleLocals, scheduling, run, loader, idx, price, pea_contrib, taxable_contrib,
                   new_pea_shares, new_taxable_shares, pea_exit, taxable_exit,
                   livretLocals, results>>

\* simulate_investment_strategy called again on the same DCAStrategy
\* object with the same series: the locals start afresh, the lists of the
\* object are the ones the call before left.
DCARerun ==
    /\ kind = "DCA" /\ pc = "finalized"
    /\ run < MaxRuns /\ Len(monthly_prices) <= MaxRerunLen
    /\ DCAStart(monthly_prices[1])
    /\ idx' = 0
    /\ run' = run + 1
    /\ UNCHANGED <<inputs, singleLocals, scheduling, loader, monthly_prices, price, pea_contrib,
                   taxable_contrib, new_pea_shares, new_taxable_shares,
                   pea_exit, taxable_exit, livretLocals, results>>

\* one iteration of the loop of DCAStrategy.simulate_investment_strategy
DCAStep ==
    /\ kind = "DCA" /\ pc = "stepping" /\ idx < MaxSteps
    /\ \E p \in Prices :
         /\ ObservationAt(p)
         /\ LET mc == bumped_contribution(monthly_contrib, idx)
                sc == split_contribution(mc)
                pcash1 == pea_cash + sc[1]
                tcash1 == taxable_cash + sc[2]
                pr == BuyPrice(p)
                new == buy_shares(pr, pcash1, tcash1)
                ps == pea_shares + new[1]
                ts == taxable_shares + new[2]
                pcash2 == cash_after_purchase(pcash1, new[1], pr)
                tcash2 == cash_after_purchase(tcash1, new[2], pr)
                tv == track_values(sc[1], sc[2])
                pinv == Append(pea_invested, tv[1])
                tinv == Append(taxable_invested, tv[2])
                ev == bucket_exit_values(p, ps, ts, pcash2, tcash2, idx, pinv, tinv)
            IN  /\ monthly_prices' = Reveal(p)
                /\ monthly_contrib' = mc
                /\ pea_contrib' = sc[1]
                /\ taxable_contrib' = sc[2]
                /\ price' = pr
                /\ new_pea_shares' = new[1]
                /\ new_taxable_shares' = new[2]
                /\ pea_shares' = ps
                /\ taxable_shares' = ts
                /\ pea_cash' = pcash2
                /\ taxable_cash' = tcash2
                /\ pea_paid' = pea_paid + new[1] * pr
                /\ taxable_paid' = taxable_paid + new[2] * pr
                /\ monthly_contributions' = Append(monthly_contributions, mc)
                /\ pea_invested' = pinv
                /\ taxable_invested' = tinv
                /\ total_invested_cash' = Append(total_invested_cash, tv[1] + tv[2])
                /\ portfolio_values' =
                       Append(portfolio_values,
                              calc_portfolio_value(StockPrice(p), ps, ts, pcash2, tcash2))
                /\ pea_exit' = ev[1]
                /\ taxable_exit' = ev[2]
                /\ exit_values' =
                       Append(exit_values,
                              calc_exit_value(p, ps, ts, pcash2, tcash2, idx, pinv, tinv))
    /\ idx' = idx + 1
    /\ UNCHANGED <<inputs, singleLocals, scheduling, run, loader, pc, entry_price, livretLocals>>

\* lines 272-274: the locals of LivretAStrategy.simulate_investment_strategy
LivretStart ==
    /\ cash' = initial_cash
    /\ shares' = <<0, 1>>
    /\ monthly_contrib' = initial_monthly_contribution
    /\ pc' = "stepping"

\* LivretAStrategy.simulate_investment_strategy up to the loop
LivretBegin ==
    /\ kind = "Livret" /\ pc = "ready"
    /\ LivretStart
    /\ UNCHANGED <<inputs, bucketPaid, singleLocals, scheduling, run, loader, monthly_prices, idx, entry_price, price, dcaLocals,
                   results>>

\* simulate_investment_strategy called again on the same LivretAStrategy
\* object with the same series
LivretRerun ==
    /\ kind = "Livret" /\ pc = "finalized" /\ loader_pc = "idle"
    /\ run < MaxRuns /\ Len(monthly_prices) <= MaxRerunLen
    /\ LivretStart
    /\ idx' = 0
    /\ run' = run + 1
    /\ UNCHANGED <<inputs, bucketPaid, singleLocals, scheduling, loader, monthly_prices, entry_price, price, dcaLocals,
                   results>>

\* all the cash kept as a remainder of whole units
livret_convert_whole(sh, c, pr) ==
    IF pr[1] > 0
    THEN LET n == FloorDiv(c * pr[2], pr[1])
         IN  <<FracAdd(sh, <<n, 1>>), c - (n * pr[1]) \div pr[2]>>
    ELSE <<sh, c>>

\* units bought and cash left by lines 285-289: <<shares, cash>>; the
\* price pr is an exact fraction
livret_convert(sh, c, pr) ==
    IF pr[1] > 0 THEN <<FracAdd(sh, Frac(c * pr[2], pr[1])), 0>> ELSE <<sh, c>>

\* lines 277-302: the body of the loop of
\* LivretAStrategy.simulate_investment_strategy at the price pr
LivretIteration(pr) ==
    LET mc == bumped_contribution(monthly_contrib, idx)
        c1 == cash + mc
        cv == livret_convert(shares, c1, pr)
        total_invested ==
            (IF total_invested_cash # <<>> THEN Last(total_invested_cash)
                                           ELSE initial_cash) + mc
        portfolio_value == FracAdd(FracTimes(cv[1], pr), <<cv[2], 1>>)
    IN  /\ monthly_contrib' = mc
        /\ price' = pr
        /\ shares' = cv[1]
        /\ cash' = cv[2]
        /\ monthly_contributions' = Append(monthly_contributions, mc)
        /\ total_invested_cash' = Append(total_invested_cash, total_invested)
        /\ portfolio_values' = Append(portfolio_values, portfolio_value)
        /\ exit_values' = Append(exit_values, portfolio_value)

\* one iteration of the loop of LivretAStrategy.simulate_investment_strategy
LivretStep ==
    /\ kind = "Livret" /\ pc = "stepping" /\ idx < MaxSteps
    /\ loader_pc = "idle"
    /\ \E p \in Prices :
         /\ ObservationAt(p)
         /\ monthly_prices' = Reveal(p)
         /\ LivretIteration(<<StockPrice(p), 1>>)
    /\ idx' = idx + 1
    /\ UNCHANGED <<inputs, bucketPaid, singleLocals, scheduling, run, loader, pc, entry_price, dcaLocals, pea_invested,
                   taxable_invested>>

\* the loop ends: the loop took no observation before every one of the
\* series was consumed
Finish_early ==
    /\ pc = "stepping"
    /\ pc' = "finalized"
    /\ UNCHANGED <<inputs, bucketPaid, singleLocals, scheduling, run, loader, monthly_prices, idx, monthly_contrib, entry_price,
                   price, dcaLocals, livretLocals, results>>

\* the loop ends: every observation of the series has been consumed
Finish ==
    /\ pc = "stepping"
    /\ loader_pc = "idle"
    /\ Len(monthly_prices) = idx
    /\ pc' = "finalized"
    /\ UNCHANGED <<inputs, bucketPaid, singleLocals, scheduling, run, loader, monthly_prices, idx, monthly_contrib, entry_price,
                   price, dcaLocals, livretLocals, results>>

Next ==
    \/ DCAEmptySeries
    \/ DCABegin
    \/ DCAStep
    \/ DCARerun
    \/ LivretBegin
    \/ LivretStep
    \/ LivretRerun
    \/ Finish

Spec == Init /\ [][Next]_vars

\* ------------------------------------------------------------- LivretADataLoader
\* monthly rates the loader may read (exact fractions)
RateValues == {<<0, 1>>, <<1, 2>>, <<1, 1>>}

RECURSIVE compute_cumulative_value_additive(_, _)
\* the rate added to the previous value instead of compounded
compute_cumulative_value_additive(rates, i) ==
    IF i = 1 THEN <<1, 1>>
    ELSE FracAdd(compute_cumulative_value_additive(rates, i - 1), rates[i - 1])

RECURSIVE compute_cumulative_value(_, _)
\* cumulative_value.iloc[i - 1] of _compute_cumulative_value (i is 1-based)
compute_cumulative_value(rates, i) ==
    IF i = 1 THEN <<1, 1>>
    ELSE FracTimes(compute_cumulative_value(rates, i - 1),
                   FracAdd(<<1, 1>>, rates[i - 1]))

\* _load_and_process_data: the "monthly_rate" column of the date range
LoaderLoad ==
    /\ kind = "Livret" /\ loader_pc = "idle"
    /\ \E n \in 0..MaxMonths :
         \E rates \in [1..n -> RateValues] : monthly_rates' = rates
    /\ loader_pc' = "loaded"
    /\ UNCHANGED <<inputs, bucketPaid, singleLocals, scheduling, run, adjusted_close, pc, monthly_prices, idx,
                   monthly_contrib, entry_price, price, dcaLocals, livretLocals,
                   results>>

\* get_monthly_equivalent_prices with normalize: the cumulative value of
\* each month divided by the last one; on an empty frame
\* cumulative_value.iloc[0] = 1.0 raises
LoaderNormalize ==
    /\ kind = "Livret" /\ loader_pc = "loaded"
    /\ LET n == Len(monthly_rates) IN
       IF n = 0
       THEN /\ loader_pc' = "error"
            /\ UNCHANGED adjusted_close
       ELSE /\ loader_pc' = "ready"
            /\ adjusted_close' =
                   [i \in 1..n |->
                       FracDiv(compute_cumulative_value(monthly_rates, i),
                               compute_cumulative_value(monthly_rates, n))]
    /\ UNCHANGED <<inputs, bucketPaid, singleLocals, scheduling, run, monthly_rates, pc, monthly_prices, idx,
                   monthly_contrib, entry_price, price, dcaLocals, livretLocals,
                   results>>

\* one iteration of LivretAStrategy's loop over the loader's frame
LoadedLivretStep ==
    /\ kind = "Livret" /\ pc = "stepping"
    /\ loader_pc = "ready" /\ idx < Len(adjusted_close)
    /\ LivretIteration(FracMul(adjusted_close[idx + 1], Money(1)))
    /\ idx' = idx + 1
    /\ UNCHANGED <<inputs, bucketPaid, singleLocals, scheduling, run, loader, pc, monthly_prices, entry_price, dcaLocals,
                   pea_invested, taxable_invested>>

\* the loop over the loader's frame ends
LoadedFinish ==
    /\ kind = "Livret" /\ pc = "stepping"
    /\ loader_pc = "ready" /\ idx = Len(adjusted_close)
    /\ pc' = "finalized"
    /\ UNCHANGED <<inputs, bucketPaid, singleLocals, scheduling, run, loader, monthly_prices, idx, monthly_contrib,
                   entry_price, price, dcaLocals, livretLocals, results>>

InitLoader == Init /\ kind = "Livret"

NextLoader ==
    \/ LoaderLoad
    \/ LoaderNormalize
    \/ LivretBegin
    \/ LoadedLivretStep
    \/ LoadedFinish

\* app.py: the loader's frame, then one LivretAStrategy run over it
SpecLoader == InitLoader /\ [][NextLoader]_vars

\* ------------------------------------------------------------- properties
\* the run parameters the interface allows: none is negative
NonNegativeParameters ==
    initial_cash >= 0 /\ initial_monthly_contribution >= 0 /\ yearly_bump >= 0

RECURSIVE SumSeq(_, _)
\* s[1] + ... + s[k]
SumSeq(s, k) == IF k = 0 THEN 0 ELSE SumSeq(s, k - 1) + s[k]

\* the observation of the last completed iteration, and the fee-inclusive
\* prices the interface defines on it
LastObserved == monthly_prices[idx]
ObservedBuy == LastObserved * (FeeDen + params.entry_fee) * TaxDen
ObservedSell == LastObserved * (FeeDen - params.exit_fee) * TaxDen

\* liquidation value and gain of each bucket after the last iteration
PeaValue == pea_shares * ObservedSell + pea_cash
TaxableValue == taxable_shares * ObservedSell + taxable_cash
PeaGain == PeaValue - pea_invested[idx]
TaxableGain == TaxableValue - taxable_invested[idx]

\* the object was fresh when the call in progress began
FirstRun == run = 1

\* a DCAStrategy run on a fresh object has completed an iteration
DCAStepped == kind = "DCA" /\ idx >= 1 /\ FirstRun

\* C1: in mode "PEA", with non-negative parameters, every recorded
\* cumulative amount of the capped bucket is at most PEA_limit, the first
\* step included.
C1_CapNeverExceeded ==
    (kind = "DCA" /\ taxation_mode = "PEA" /\ NonNegativeParameters)
        => \A i \in DOMAIN pea_invested : pea_invested[i] <= params.PEA_limit

\* C2: the two parts of every split contribution are non-negative and sum
\* to the monthly contribution; the lump sum is split the same way: the
\* capped part is min(initial_cash, PEA_limit) in mode "PEA" (nothing
\* otherwise), the taxable part is the non-negative remainder.
C2_SplitSumsToContribution ==
    (kind = "DCA" /\ NonNegativeParameters) =>
        /\ idx >= 1 =>
             /\ pea_contrib >= 0
             /\ taxable_contrib >= 0
             /\ pea_contrib + taxable_contrib = monthly_contrib
             /\ monthly_contrib = Last(monthly_contributions)
        /\ (pc = "stepping" /\ idx = 0) =>
             LET capped == pea_shares * entry_price + pea_cash
                 taxed == taxable_shares * entry_price + taxable_cash
             IN  /\ capped = IF taxation_mode = "PEA"
                             THEN Min(initial_cash, params.PEA_limit)
                             ELSE 0
                 /\ taxed >= 0
                 /\ capped + taxed = initial_cash

\* a contribution that straddles the cap: part to each bucket
C2_Witness ==
    /\ DCAStepped /\ taxation_mode = "PEA"
    /\ pea_contrib > 0 /\ taxable_contrib > 0

\* C3: in mode "Aucune" the capped bucket stays empty (cash, shares and
\* cumulative invested all 0) and the taxable bucket's cumulative invested
\* is the lump sum plus every contribution, equal to total_invested_cash,
\* whatever PEA_limit is.
C3_NoCapWithoutTaxation ==
    (kind = "DCA" /\ taxation_mode = "Aucune" /\ pc \in {"stepping", "finalized"}) =>
        /\ pea_cash = 0 /\ pea_shares = 0
        /\ idx >= 1 => (pea_contrib = 0 /\ new_pea_shares = 0)
        /\ \A i \in DOMAIN pea_invested :
             /\ pea_invested[i] = 0
             /\ taxable_invested[i] = total_invested_cash[i]
             /\ taxable_invested[i] = initial_cash + SumSeq(monthly_contributions, i)

\* the total invested without taxation exceeds a positive PEA_limit
C3_Witness ==
    /\ DCAStepped /\ taxation_mode = "Aucune"
    /\ params.PEA_limit > 0
    /\ initial_cash > params.PEA_limit
    /\ monthly_contrib > 0
    /\ idx >= 2
    /\ taxable_invested[idx] > params.PEA_limit

\* C4: the contribution recorded for the 1-indexed step s of a run on a
\* fresh object is initial_monthly_contribution + floor(s / 12) *
\* yearly_bump, in both strategy classes.
C4_EscalationTiming ==
    FirstRun => \A s \in DOMAIN monthly_contributions :
        monthly_contributions[s] =
            initial_monthly_contribution + (s \div 12) * yearly_bump

\* steps 11, 12 and 24 of a run whose bump is positive
C4_Witness ==
    /\ Len(monthly_contributions) >= 24
    /\ yearly_bump > 0
    /\ monthly_contributions[11] = initial_monthly_contribution
    /\ monthly_contributions[12] = initial_monthly_contribution + yearly_bump
    /\ monthly_contributions[24] = initial_monthly_contribution + 2 * yearly_bump

\* C5: in every step and for each bucket, the cash after the purchase plus
\* the shares bought times the fee-inclusive buy price is at most the cash
\* before the step plus the contribution credited to the bucket.
C5_NoCashCreated ==
    [][(kind = "DCA" /\ pc = "stepping" /\ idx' = idx + 1) =>
          LET buy == monthly_prices'[idx'] * (FeeDen + params.entry_fee) * TaxDen
          IN  /\ pea_cash' + (pea_shares' - pea_shares) * buy
                    <= pea_cash + pea_contrib'
              /\ taxable_cash' + (taxable_shares' - taxable_shares) * buy
                    <= taxable_cash + taxable_contrib']_vars

\* a step that bought shares in both buckets at a price that carries a fee
C5_Witness ==
    /\ DCAStepped
    /\ params.entry_fee > 0
    /\ new_pea_shares > 0 /\ new_taxable_shares > 0

\* C6: at a positive buy price each purchase, the lump sum's and every
\* step's, buys per bucket the largest whole number n of shares with
\* n * buy price <= available cash, and leaves 0 <= cash < buy price, the
\* cash carried to the next step.
C6_LargestWholePurchase ==
    [][/\ (kind = "DCA" /\ pc = "stepping" /\ idx' = idx + 1 /\ price' > 0) =>
            LET pavail == pea_cash + pea_contrib'
                tavail == taxable_cash + taxable_contrib'
                pn == pea_shares' - pea_shares
                tn == taxable_shares' - taxable_shares
            IN  /\ price' = monthly_prices'[idx'] * (FeeDen + params.entry_fee) * TaxDen
                /\ pn = new_pea_shares' /\ tn = new_taxable_shares'
                /\ pn * price' <= pavail /\ pavail < (pn + 1) * price'
                /\ tn * price' <= tavail /\ tavail < (tn + 1) * price'
                /\ pea_cash' = pavail - pn * price'
                /\ taxable_cash' = tavail - tn * price'
                /\ 0 <= pea_cash' /\ pea_cash' < price'
                /\ 0 <= taxable_cash' /\ taxable_cash' < price'
       /\ (kind = "DCA" /\ pc = "ready" /\ pc' = "stepping" /\ entry_price' > 0
              /\ NonNegativeParameters) =>
            /\ entry_price' = monthly_prices'[1] * (FeeDen + params.entry_fee) * TaxDen
            /\ 0 <= pea_cash' /\ pea_cash' < entry_price'
            /\ 0 <= taxable_cash' /\ taxable_cash' < entry_price'
            /\ pea_shares' >= 0 /\ taxable_shares' >= 0
            /\ (pea_shares' + taxable_shares') * entry_price'
                   + pea_cash' + taxable_cash' = initial_cash]_vars

\* a purchase made with cash carried over from the step before
C6_Witness ==
    /\ DCAStepped /\ idx >= 2
    /\ price > 0
    /\ new_pea_shares > 0
    /\ pea_cash > 0
    /\ new_pea_shares * price > pea_contrib

\* C7: with non-negative parameters pea_invested, taxable_invested and
\* total_invested_cash never decrease from a step to the next.
C7_MonotonicBasis ==
    (kind = "DCA" /\ NonNegativeParameters) =>
        \A i \in 1..(Len(pea_invested) - 1) :
            /\ pea_invested[i] <= pea_invested[i + 1]
            /\ taxable_invested[i] <= taxable_invested[i + 1]
            /\ total_invested_cash[i] <= total_invested_cash[i + 1]

\* both buckets' cumulative amounts have grown during the run
C7_Witness ==
    /\ DCAStepped /\ idx >= 3
    /\ pea_invested[1] < pea_invested[idx]
    /\ taxable_invested[1] < taxable_invested[idx]

\* C8: a bucket whose gain is <= 0, or any bucket in mode "Aucune", has an
\* exit value equal to its liquidation value shares * sell price + cash.
C8_NoTaxOnLoss ==
    DCAStepped =>
        /\ (PeaGain <= 0 \/ taxation_mode = "Aucune") => pea_exit = PeaValue
        /\ (TaxableGain <= 0 \/ taxation_mode = "Aucune") => taxable_exit = TaxableValue

\* a taxed bucket holding shares with a gain of exactly zero, the other
\* bucket at a loss
C8_Witness ==
    /\ DCAStepped /\ taxation_mode = "PEA"
    /\ pea_shares > 0 /\ PeaGain = 0
    /\ taxable_shares > 0 /\ TaxableGain < 0

\* C9: in mode "PEA" a bucket with a gain > 0 exits at
\* gain * (1 - rate) + its cumulative invested, rate being exit_tax_rate
\* for the capped bucket and taxable_account_tax_rate for the taxable one,
\* each gain taken against the bucket's own basis; the step's exit value
\* is the sum of the two buckets' exit values.
C9_TaxOnGainPerBucket ==
    (DCAStepped /\ taxation_mode = "PEA") =>
        /\ PeaGain > 0 =>
             pea_exit * TaxDen =
                 PeaGain * (TaxDen - params.exit_tax_rate) + pea_invested[idx] * TaxDen
        /\ TaxableGain > 0 =>
             taxable_exit * TaxDen =
                 TaxableGain * (TaxDen - params.taxable_account_tax_rate)
                     + taxable_invested[idx] * TaxDen
        /\ exit_values[idx] = pea_exit + taxable_exit

\* both buckets taxed on a gain in one step, and a step where the capped
\* bucket gains while the taxable bucket loses
C9_Witness ==
    /\ DCAStepped /\ taxation_mode = "PEA"
    /\ PeaGain > 0 /\ TaxableGain > 0
    /\ pea_invested[idx] > 0 /\ taxable_invested[idx] > 0

C9_WitnessLossBesideGain ==
    /\ DCAStepped /\ taxation_mode = "PEA"
    /\ PeaGain > 0 /\ TaxableGain < 0

\* C10: a purchase at a fee-inclusive buy price <= 0 buys no share in
\* either bucket and leaves each bucket's cash as it was, the purchase of
\* the lump sum at the first observation included.
C10_NoPurchaseAtNonPositivePrice ==
    [][/\ (kind = "DCA" /\ pc = "ready" /\ pc' = "stepping" /\ entry_price' <= 0) =>
            /\ pea_shares' = 0 /\ taxable_shares' = 0
            /\ pea_cash' + taxable_cash' = initial_cash
       /\ (kind = "DCA" /\ pc = "stepping" /\ idx' = idx + 1 /\ price' <= 0) =>
            /\ pea_shares' = pea_shares /\ taxable_shares' = taxable_shares
            /\ pea_cash' = pea_cash + pea_contrib'
            /\ taxable_cash' = taxable_cash + taxable_contrib'
       /\ (kind = "Livret" /\ pc = "stepping" /\ idx' = idx + 1 /\ price'[1] <= 0) =>
            /\ shares' = shares
            /\ cash' = cash + monthly_contrib']_vars

\* ------------------------------------------------------------- properties (2)
\* C11: during and after one run on a fresh object the four result
\* sequences have one entry per observation processed: k entries after the
\* k-th observation, N entries once the N observations are consumed.
C11_OneEntryPerObservation ==
    (FirstRun /\ pc \in {"stepping", "finalized"}) =>
        /\ Len(monthly_contributions) = idx
        /\ Len(total_invested_cash) = idx
        /\ Len(portfolio_values) = idx
        /\ Len(exit_values) = idx
        /\ idx <= Len(monthly_prices)
        /\ pc = "finalized" => idx = Len(monthly_prices)

\* a completed run over more than a year of observations
C11_Witness ==
    /\ FirstRun /\ kind = "DCA" /\ pc = "finalized"
    /\ NonNegativeParameters
    /\ Len(monthly_prices) >= 13
    /\ Len(exit_values) = Len(monthly_prices)

\* C12: in a run on a fresh object, DCAStrategy in both modes and
\* LivretAStrategy, total_invested_cash at step k is initial_cash plus the
\* contributions recorded for steps 1..k.
C12_TotalIsLumpSumPlusContributions ==
    FirstRun =>
        \A k \in DOMAIN total_invested_cash :
            total_invested_cash[k] = initial_cash + SumSeq(monthly_contributions, k)

\* lump sum and twelve equal contributions, the lump sum straddling the cap
C12_Witness ==
    /\ DCAStepped /\ taxation_mode = "PEA" /\ idx >= 12
    /\ initial_cash > params.PEA_limit /\ params.PEA_limit > 0
    /\ initial_monthly_contribution > 0 /\ yearly_bump = 0
    /\ total_invested_cash[12] = initial_cash + 12 * initial_monthly_contribution

\* the observed price has been the same at every step so far
ConstantPrice == \A i \in DOMAIN monthly_prices : monthly_prices[i] = monthly_prices[1]
ZeroFees == params.entry_fee = 0 /\ params.exit_fee = 0

\* C13: constant price, no entry or exit fee, mode "Aucune", non-negative
\* parameters: exit value, portfolio value and total invested cash are
\* equal at every step.
C13_FlatPriceNoGain ==
    (DCAStepped /\ taxation_mode = "Aucune" /\ ZeroFees /\ ConstantPrice
        /\ NonNegativeParameters) =>
        \A k \in 1..idx :
            /\ exit_values[k] = portfolio_values[k]
            /\ portfolio_values[k] = total_invested_cash[k]

\* a flat run past the first bump that holds shares and uninvested cash
C13_Witness ==
    /\ DCAStepped /\ taxation_mode = "Aucune" /\ ZeroFees /\ ConstantPrice
    /\ idx >= 13
    /\ monthly_prices[1] > 0
    /\ initial_cash > 0 /\ initial_monthly_contribution > 0 /\ yearly_bump > 0
    /\ taxable_shares > 0
    /\ \E k \in 1..idx : portfolio_values[k] # taxable_shares * StockPrice(monthly_prices[1])

\* C14: in mode "PEA" with non-negative parameters, a step taken once the
\* capped bucket's recorded cumulative amount has reached PEA_limit gives
\* the capped bucket nothing and the taxable bucket the whole contribution;
\* a step that leaves the cap unreached gives the taxable bucket nothing.
C14_TaxableOnlyAfterCap ==
    [][(kind = "DCA" /\ pc = "stepping" /\ idx' = idx + 1
           /\ taxation_mode = "PEA" /\ NonNegativeParameters) =>
          /\ (pea_invested # <<>> /\ Last(pea_invested) >= params.PEA_limit) =>
                /\ pea_contrib' = 0
                /\ taxable_contrib' = monthly_contrib'
                /\ Last(pea_invested') = Last(pea_invested)
                /\ Last(taxable_invested') = Last(taxable_invested) + monthly_contrib'
          /\ (Last(pea_invested') < params.PEA_limit) =>
                /\ taxable_contrib' = 0
                /\ pea_contrib' = monthly_contrib'
                /\ pea_invested # <<>> =>
                       Last(taxable_invested') = Last(taxable_invested)]_vars

\* the cap reached by a straddling contribution, then a step after it
C14_Witness ==
    /\ DCAStepped /\ taxation_mode = "PEA" /\ idx >= 3
    /\ pea_invested[1] < params.PEA_limit
    /\ \E j \in 2..(idx - 1) :
         /\ pea_invested[j] = params.PEA_limit
         /\ pea_invested[j - 1] < params.PEA_limit
         /\ taxable_invested[j] > taxable_invested[j - 1]
    /\ pea_contrib = 0 /\ taxable_contrib = monthly_contrib /\ monthly_contrib > 0

\* the case of C15: nothing but a lump sum, wholly taxable, bought without
\* remainder at the first price, seen at twice that price
C15_Case ==
    /\ DCAStepped /\ taxation_mode = "PEA" /\ params.PEA_limit = 0
    /\ ZeroFees
    /\ initial_monthly_contribution = 0 /\ yearly_bump = 0
    /\ initial_cash >= 0
    /\ monthly_prices[1] > 0
    /\ initial_cash % StockPrice(monthly_prices[1]) = 0
    /\ monthly_prices[idx] = 2 * monthly_prices[1]

\* C15: in that case the exit value is
\* lump_sum + (1 - taxable_account_tax_rate) * lump_sum.
C15_DoubledPriceExit ==
    C15_Case =>
        exit_values[idx] * TaxDen =
            initial_cash * TaxDen
                + (TaxDen - params.taxable_account_tax_rate) * initial_cash

C15_Witness == C15_Case /\ initial_cash > 0 /\ taxable_shares > 0

\* C16: a LivretAStrategy step at a positive unit value converts all the
\* cash (what was left, plus the contribution) to units, leaves a cash
\* balance of 0 and records a portfolio value and an exit value both equal
\* to units held * unit value.
C16_LivretConvertsAllCash ==
    [][(kind = "Livret" /\ pc = "stepping" /\ idx' = idx + 1 /\ price'[1] > 0) =>
          /\ cash' = 0
          /\ FracTimes(FracAdd(shares', <<0 - shares[1], shares[2]>>), price')
                 = <<cash + monthly_contrib', 1>>
          /\ Last(portfolio_values') = FracTimes(shares', price')
          /\ Last(exit_values') = Last(portfolio_values')]_vars

\* fractional units held after cash kept through a malformed observation
C16_Witness ==
    /\ kind = "Livret" /\ idx >= 2 /\ FirstRun
    /\ NonNegativeParameters /\ initial_cash > 0
    /\ price[1] > 0 /\ cash = 0
    /\ shares[2] > 1
    /\ \E i \in 1..(idx - 1) : monthly_prices[i] <= 0

RECURSIVE FracPow(_, _)
\* x to the power n
FracPow(x, n) == IF n = 0 THEN <<1, 1>> ELSE FracTimes(FracPow(x, n - 1), x)

\* the loader read one rate r for every month; the strategy contributes
\* nothing
ConstantRate == \A i \in DOMAIN monthly_rates : monthly_rates[i] = monthly_rates[1]
NoContributions == initial_monthly_contribution = 0 /\ yearly_bump = 0

\* C17: with a constant monthly rate r the loader's cumulative value after
\* n months is (1 + r)^n times the first one, and with no contributions
\* the exit value of step k is initial_cash * unit_value[k] / unit_value[0],
\* that is initial_cash * (1 + r)^k for k months elapsed.
C17_CompoundedExitValue ==
    (kind = "Livret" /\ loader_pc = "ready" /\ ConstantRate) =>
        LET r1 == FracAdd(<<1, 1>>, monthly_rates[1]) IN
        /\ \A i \in DOMAIN adjusted_close :
             /\ compute_cumulative_value(monthly_rates, i) = FracPow(r1, i - 1)
             /\ FracDiv(adjusted_close[i], adjusted_close[1]) = FracPow(r1, i - 1)
        /\ NoContributions =>
             \A k \in DOMAIN exit_values :
                 /\ exit_values[k] =
                        FracMul(FracDiv(adjusted_close[k], adjusted_close[1]), initial_cash)
                 /\ exit_values[k] = FracMul(FracPow(r1, k - 1), initial_cash)

\* a lump sum compounded at a positive rate over the whole frame
C17_Witness ==
    /\ kind = "Livret" /\ loader_pc = "ready" /\ ConstantRate /\ NoContributions
    /\ pc = "finalized"
    /\ Len(monthly_rates) >= 3 /\ monthly_rates[1] = <<1, 2>>
    /\ initial_cash > 0
    /\ Len(exit_values) = Len(monthly_rates)
    /\ Last(exit_values)[1] > initial_cash * Last(exit_values)[2]

\* C18: a second call of simulate_investment_strategy on the same object
\* with the same series (parameters non-negative, as the interface
\* requires) leaves result sequences with one entry per observation (the
\* values of a run on a fresh object).
C18_SecondCallLikeFreshRun ==
    (run >= 2 /\ pc = "finalized" /\ NonNegativeParameters) =>
        /\ Len(monthly_contributions) = Len(monthly_prices)
        /\ Len(total_invested_cash) = Len(monthly_prices)
        /\ Len(portfolio_values) = Len(monthly_prices)
        /\ Len(exit_values) = Len(monthly_prices)

\* C19: no call (parameters non-negative) returns normally from an empty
\* observation sequence: a call that ends normally has consumed
\* observations and recorded results.
C19_EmptySeriesRejected ==
    (pc = "finalized" /\ NonNegativeParameters) =>
        (monthly_prices # <<>> /\ exit_values # <<>>)

\* C20: with a negative initial_cash, initial_monthly_contribution or
\* yearly_bump no result entry is ever appended.
C20_NegativeParametersRejected ==
    ~NonNegativeParameters =>
        /\ monthly_contributions = <<>> /\ total_invested_cash = <<>>
        /\ portfolio_values = <<>> /\ exit_values = <<>>
        /\ pea_invested = <<>> /\ taxable_invested = <<>>

\* ------------------------------------------------------------- several strategy objects
\* app.py builds one strategy object per asset from the same run
\* parameters and runs each over a series.  Here the objects' calls of
\* simulate_investment_strategy are interleaved step by step.  The state
\* variables above hold the attributes and locals of the object scheduled;
\* objects holds those of the others.  The series and params are the only
\* things the objects share.
ObjectIds == {1, 2, 3}
\* the series the objects are run over
ParSeries == {<<1, 2>>, <<2, 1, 1>>}
\* <<initial_cash, initial_monthly_contribution, yearly_bump>> of the objects
ParCases == {<<3, 0, 0>>, <<5, 2, 1>>}
\* PEA_limit of the shared configuration, currency units
ParLimitValues == {3}

\* the attributes and locals the scheduled object owns
ObjectState ==
    [kind |-> kind,
     taxation_mode |-> taxation_mode,
     initial_cash |-> initial_cash,
     initial_monthly_contribution |-> initial_monthly_contribution,
     yearly_bump |-> yearly_bump,
     pc |-> pc,
     idx |-> idx,
     run |-> run,
     monthly_contrib |-> monthly_contrib,
     entry_price |-> entry_price,
     price |-> price,
     pea_cash |-> pea_cash,
     taxable_cash |-> taxable_cash,
     pea_shares |-> pea_shares,
     taxable_shares |-> taxable_shares,
     pea_contrib |-> pea_contrib,
     taxable_contrib |-> taxable_contrib,
     new_pea_shares |-> new_pea_shares,
     new_taxable_shares |-> new_taxable_shares,
     pea_exit |-> pea_exit,
     taxable_exit |-> taxable_exit,
     cash |-> cash,
     shares |-> shares,
     pea_paid |-> pea_paid,
     taxable_paid |-> taxable_paid,
     pea_invested |-> pea_invested,
     taxable_invested |-> taxable_invested,
     monthly_contributions |-> monthly_contributions,
     total_invested_cash |-> total_invested_cash,
     portfolio_values |-> portfolio_values,
     exit_values |-> exit_values]

\* a strategy object as its constructor leaves it
FreshObject(k, mode, c) ==
    [kind |-> k,
     taxation_mode |-> IF k = "DCA" THEN mode ELSE "none",
     initial_cash |-> Money(c[1]),
     initial_monthly_contribution |-> Money(c[2]),
     yearly_bump |-> Money(c[3]),
     pc |-> "ready",
     idx |-> 0,
     run |-> 1,
     monthly_contrib |-> 0,
     entry_price |-> 0,
     price |-> 0,
     pea_cash |-> 0,
     taxable_cash |-> 0,
     pea_shares |-> 0,
     taxable_shares |-> 0,
     pea_contrib |-> 0,
     taxable_contrib |-> 0,
     new_pea_shares |-> 0,
     new_taxable_shares |-> 0,
     pea_exit |-> 0,
     taxable_exit |-> 0,
     cash |-> 0,
     shares |-> <<0, 1>>,
     pea_paid |-> 0,
     taxable_paid |-> 0,
     pea_invested |-> <<>>,
     taxable_invested |-> <<>>,
     monthly_contributions |-> <<>>,
     total_invested_cash |-> <<>>,
     portfolio_values |-> <<>>,
     exit_values |-> <<>>]

\* the result lists belong to the class, one copy for all the objects
Resume_sharedlists(r) ==
    /\ kind' = r.kind
    /\ taxation_mode' = r.taxation_mode
    /\ initial_cash' = r.initial_cash
    /\ initial_monthly_contribution' = r.initial_monthly_contribution
    /\ yearly_bump' = r.yearly_bump
    /\ pc' = r.pc
    /\ idx' = r.idx
    /\ run' = r.run
    /\ monthly_contrib' = r.monthly_contrib
    /\ entry_price' = r.entry_price
    /\ price' = r.price
    /\ pea_cash' = r.pea_cash
    /\ taxable_cash' = r.taxable_cash
    /\ pea_shares' = r.pea_shares
    /\ taxable_shares' = r.taxable_shares
    /\ pea_contrib' = r.pea_contrib
    /\ taxable_contrib' = r.taxable_contrib
    /\ new_pea_shares' = r.new_pea_shares
    /\ new_taxable_shares' = r.new_taxable_shares
    /\ pea_exit' = r.pea_exit
    /\ taxable_exit' = r.taxable_exit
    /\ cash' = r.cash
    /\ shares' = r.shares
    /\ pea_paid' = r.pea_paid
    /\ taxable_paid' = r.taxable_paid
    /\ pea_invested' = r.pea_invested
    /\ taxable_invested' = r.taxable_invested
    /\ UNCHANGED <<monthly_contributions, total_invested_cash, portfolio_values,
                   exit_values>>

\* the state variables take the attributes and locals of the object r
Resume(r) ==
    /\ kind' = r.kind
    /\ taxation_mode' = r.taxation_mode
    /\ initial_cash' = r.initial_cash
    /\ initial_monthly_contribution' = r.initial_monthly_contribution
    /\ yearly_bump' = r.yearly_bump
    /\ pc' = r.pc
    /\ idx' = r.idx
    /\ run' = r.run
    /\ monthly_contrib' = r.monthly_contrib
    /\ entry_price' = r.entry_price
    /\ price' = r.price
    /\ pea_cash' = r.pea_cash
    /\ taxable_cash' = r.taxable_cash
    /\ pea_shares' = r.pea_shares
    /\ taxable_shares' = r.taxable_shares
    /\ pea_contrib' = r.pea_contrib
    /\ taxable_contrib' = r.taxable_contrib
    /\ new_pea_shares' = r.new_pea_shares
    /\ new_taxable_shares' = r.new_taxable_shares
    /\ pea_exit' = r.pea_exit
    /\ taxable_exit' = r.taxable_exit
    /\ cash' = r.cash
    /\ shares' = r.shares
    /\ pea_paid' = r.pea_paid
    /\ taxable_paid' = r.taxable_paid
    /\ pea_invested' = r.pea_invested
    /\ taxable_invested' = r.taxable_invested
    /\ monthly_contributions' = r.monthly_contributions
    /\ total_invested_cash' = r.total_invested_cash
    /\ portfolio_values' = r.portfolio_values
    /\ exit_values' = r.exit_values

\* the state variables hold the attributes and locals of the object r
Holds(r) ==
    /\ kind = r.kind
    /\ taxation_mode = r.taxation_mode
    /\ initial_cash = r.initial_cash
    /\ initial_monthly_contribution = r.initial_monthly_contribution
    /\ yearly_bump = r.yearly_bump
    /\ pc = r.pc
    /\ idx = r.idx
    /\ run = r.run
    /\ monthly_contrib = r.monthly_contrib
    /\ entry_price = r.entry_price
    /\ price = r.price
    /\ pea_cash = r.pea_cash
    /\ taxable_cash = r.taxable_cash
    /\ pea_shares = r.pea_shares
    /\ taxable_shares = r.taxable_shares
    /\ pea_contrib = r.pea_contrib
    /\ taxable_contrib = r.taxable_contrib
    /\ new_pea_shares = r.new_pea_shares
    /\ new_taxable_shares = r.new_taxable_shares
    /\ pea_exit = r.pea_exit
    /\ taxable_exit = r.taxable_exit
    /\ cash = r.cash
    /\ shares = r.shares
    /\ pea_paid = r.pea_paid
    /\ taxable_paid = r.taxable_paid
    /\ pea_invested = r.pea_invested
    /\ taxable_invested = r.taxable_invested
    /\ monthly_contributions = r.monthly_contributions
    /\ total_invested_cash = r.total_invested_cash
    /\ portfolio_values = r.portfolio_values
    /\ exit_values = r.exit_values

\* the scheduler passes from the scheduled object to object o
Switch(o) ==
    /\ o \in ObjectIds /\ o # scheduled
    /\ Resume(objects[o])
    /\ scheduled' = o
    /\ objects' = [i \in ObjectIds \ {o} |->
                       IF i = scheduled THEN ObjectState ELSE objects[i]]
    /\ UNCHANGED <<params, monthly_prices, loader, singleLocals>>

InitPar ==
    /\ monthly_prices \in ParSeries
    /\ \E f \in FeeValues, l \in ParLimitValues :
           params = [entry_fee |-> f[1], exit_fee |-> f[2],
                     PEA_limit |-> Money(l),
                     exit_tax_rate |-> 1,
                     taxable_account_tax_rate |-> 2]
    /\ scheduled = 1
    /\ \E kinds \in [ObjectIds -> {"DCA", "Livret"}], mode \in TaxationModes,
           c \in ParCases :
           /\ Holds(FreshObject(kinds[1], mode, c))
           /\ objects = [i \in ObjectIds \ {1} |-> FreshObject(kinds[i], mode, c)]
    /\ loader_pc = "idle" /\ monthly_rates = <<>> /\ adjusted_close = <<>>
    /\ shares_owned = 0 /\ available_cash = 0 /\ spent = 0

\* DCAStrategy.simulate_investment_strategy up to the loop, on the shared
\* series
ParDCABegin ==
    /\ kind = "DCA" /\ pc = "ready"
    /\ monthly_prices # <<>>
    /\ DCAStart(monthly_prices[1])
    /\ UNCHANGED <<inputs, singleLocals, scheduling, run, loader, monthly_prices,
                   idx, price, pea_contrib, taxable_contrib, new_pea_shares,
                   new_taxable_shares, pea_exit, taxable_exit, livretLocals,
                   results>>

\* one iteration of the scheduled object's loop over the shared series
ParDCAStep == idx < Len(monthly_prices) /\ DCAStep
ParLivretStep == idx < Len(monthly_prices) /\ LivretStep

NextPar ==
    \/ \E o \in ObjectIds : Switch(o)
    \/ ParDCABegin
    \/ ParDCAStep
    \/ LivretBegin
    \/ ParLivretStep
    \/ Finish

\* the objects' runs over one series, their steps interleaved in any order
SpecPar == InitPar /\ [][NextPar]_vars

\* what object o owns
StateOf(o) == IF o = scheduled THEN ObjectState ELSE objects[o]

\* the four result sequences of an object
ResultsOf(r) == <<r.monthly_contributions, r.total_invested_cash,
                  r.portfolio_values, r.exit_values>>

\* two objects of the same class and parameters at the same point of
\* their runs
SameRun(a, b) ==
    /\ a.kind = b.kind /\ a.taxation_mode = b.taxation_mode
    /\ a.initial_cash = b.initial_cash
    /\ a.initial_monthly_contribution = b.initial_monthly_contribution
    /\ a.yearly_bump = b.yearly_bump
    /\ a.idx = b.idx

\* every object's result sequences hold the entries of its own steps only,
\* and are those of any other object of the same class and parameters that
\* has come as far, however the steps of the two were interleaved (the
\* first object to run is never interrupted in some behaviours: its run is
\* the run alone)
Independent ==
    /\ \A o \in ObjectIds :
         \A i \in 1..4 : Len(ResultsOf(StateOf(o))[i]) = StateOf(o).idx
    /\ \A a, b \in ObjectIds :
         SameRun(StateOf(a), StateOf(b)) =>
             ResultsOf(StateOf(a)) = ResultsOf(StateOf(b))

\* C21: under any interleaving of the steps of distinct strategy objects
\* each object's four result sequences are those of its run alone, and no
\* step modifies the shared series or the shared params.
C21_RunsIndependent ==
    [][/\ Independent'
       /\ monthly_prices' = monthly_prices
       /\ params' = params]_vars

\* two DCAStrategy objects stopped in the middle of their runs with equal
\* results so far, beside a LivretAStrategy object that has finished
C21_Witness ==
    \E a, b, l \in ObjectIds :
        /\ a # b
        /\ StateOf(a).kind = "DCA" /\ StateOf(b).kind = "DCA"
        /\ StateOf(a).pc = "stepping" /\ StateOf(b).pc = "stepping"
        /\ StateOf(a).idx = 1 /\ StateOf(b).idx = 2
        /\ Len(monthly_prices) = 3
        /\ StateOf(a).initial_monthly_contribution > 0
        /\ StateOf(a).exit_values = SubSeq(StateOf(b).exit_values, 1, 1)
        /\ StateOf(l).kind = "Livret" /\ StateOf(l).pc = "finalized"
        /\ Len(StateOf(l).exit_values) = 3

\* ------------------------------------------------------------- properties (3)
\* every observation consumed so far has a positive price
PositivePrices == \A i \in DOMAIN monthly_prices : monthly_prices[i] > 0

\* C22: with positive prices and non-negative parameters, as the interface
\* requires (the model's fee and tax rates all lie in [0, 1]), the exit
\* value DCAStrategy reports at a step is at most the portfolio value of
\* that step; each bucket's exit value is at most its liquidation value
\* and, when its gain is positive, at least its cumulative invested amount.
C22_ExitValueBounds ==
    (DCAStepped /\ PositivePrices /\ NonNegativeParameters) =>
        /\ exit_values[idx] <= portfolio_values[idx]
        /\ exit_values[idx] = pea_exit + taxable_exit
        /\ pea_exit <= PeaValue
        /\ taxable_exit <= TaxableValue
        /\ PeaGain > 0 => pea_exit >= pea_invested[idx]
        /\ TaxableGain > 0 => taxable_exit >= taxable_invested[idx]

\* both buckets are taxed on a gain and the exit value is below the
\* portfolio value
C22_Witness ==
    /\ DCAStepped /\ PositivePrices /\ NonNegativeParameters
    /\ taxation_mode = "PEA"
    /\ PeaGain > 0 /\ TaxableGain > 0
    /\ pea_exit < PeaValue /\ pea_exit > pea_invested[idx]
    /\ taxable_exit < TaxableValue /\ taxable_exit > taxable_invested[idx]
    /\ exit_values[idx] < portfolio_values[idx]

\* a loss with fees: the exit value is below the portfolio value untaxed
C22_WitnessFees ==
    /\ DCAStepped /\ PositivePrices /\ NonNegativeParameters
    /\ params.exit_fee > 0 /\ taxable_shares > 0
    /\ TaxableGain < 0 /\ taxable_exit = TaxableValue
    /\ exit_values[idx] < portfolio_values[idx]

\* C23: with positive prices, in a run on a fresh object, each bucket's
\* cash plus what was paid for all its purchases (shares bought * buy price
\* with fee) equals the cumulative invested amount recorded for the bucket
\* at that step.
C23_BasisMatchesMoneyPutIn ==
    (DCAStepped /\ PositivePrices) =>
        /\ pea_cash + pea_paid = pea_invested[idx]
        /\ taxable_cash + taxable_paid = taxable_invested[idx]

\* both buckets hold shares bought with fees at two different prices and
\* uninvested cash
C23_Witness ==
    /\ DCAStepped /\ PositivePrices /\ NonNegativeParameters
    /\ taxation_mode = "PEA" /\ params.entry_fee > 0
    /\ \E i \in 1..idx : monthly_prices[i] # monthly_prices[1]
    /\ pea_shares > 0 /\ taxable_shares > 0
    /\ pea_paid > 0 /\ taxable_paid > 0
    /\ pea_cash + taxable_cash > 0
    /\ new_pea_shares + new_taxable_shares > 0

\* ------------------------------------------------------------- single-account engines
\* DCAStrategy of src/src/strategy.py ("Single") and Strategy.passive_strategy
\* of src/strategy.py ("Passive"): one account, capped at PEA_limit.  The
\* lists passive_strategy fills are its locals, which it stores in the
\* object when the loop has ended; invested_cash_values is modelled by
\* total_invested_cash.
SingleKinds == {"Single", "Passive"}
\* PEA_limit (limit_PEA) of the single-account engines, currency units
SingleLimitValues == {3, 40}

\* the contribution of an iteration once the cap is applied: the remaining
\* capacity when the contribution would pass the cap, never at the first
\* iteration
single_capped_contribution(mc) ==
    IF total_invested_cash # <<>>
         /\ params.PEA_limit < Last(total_invested_cash) + mc
    THEN Max(0, params.PEA_limit - Last(total_invested_cash))
    ELSE mc

\* the first entry counts the first contribution too
single_total_invested_withfirst(i, mc) ==
    IF i = 0 THEN initial_cash + mc ELSE Last(total_invested_cash) + mc

\* the entry appended to total_invested_cash by iteration i (0-based)
single_total_invested(i, mc) ==
    IF i = 0 THEN initial_cash ELSE Last(total_invested_cash) + mc

\* _compute_exit_value, and the exit value of passive_strategy, on the
\* basis invested
compute_exit_value(p, n, c, invested) ==
    LET exit_value_before_tax == n * SellPrice(p) + c
        capital_gain == exit_value_before_tax - invested
        no_tax == IF kind = "Single" THEN capital_gain <= 0
                                     ELSE exit_value_before_tax < invested
    IN  IF no_tax
        THEN exit_value_before_tax
        ELSE (capital_gain * (TaxDen - params.exit_tax_rate)) \div TaxDen + invested

InitSingle ==
    /\ kind \in SingleKinds
    /\ \E c \in ParameterCases :
           /\ initial_cash = Money(c[1])
           /\ initial_monthly_contribution = Money(c[2])
           /\ yearly_bump = Money(c[3])
    /\ taxation_mode = "none"
    /\ \E f \in FeeValues, l \in SingleLimitValues :
           params = [entry_fee |-> f[1], exit_fee |-> f[2],
                     PEA_limit |-> Money(l),
                     exit_tax_rate |-> 1,
                     taxable_account_tax_rate |-> 0]
    /\ pc = "ready"
    /\ monthly_prices = <<>>
    /\ idx = 0
    /\ monthly_contrib = 0
    /\ entry_price = 0
    /\ price = 0
    /\ pea_cash = 0 /\ taxable_cash = 0 /\ pea_shares = 0 /\ taxable_shares = 0
    /\ pea_contrib = 0 /\ taxable_contrib = 0
    /\ new_pea_shares = 0 /\ new_taxable_shares = 0
    /\ pea_exit = 0 /\ taxable_exit = 0
    /\ cash = 0 /\ shares = <<0, 1>>
    /\ monthly_contributions = <<>> /\ total_invested_cash = <<>>
    /\ portfolio_values = <<>> /\ exit_values = <<>>
    /\ pea_invested = <<>> /\ taxable_invested = <<>>
    /\ run = 1
    /\ loader_pc = "idle" /\ monthly_rates = <<>> /\ adjusted_close = <<>>
    /\ pea_paid = 0 /\ taxable_paid = 0
    /\ shares_owned = 0 /\ available_cash = 0 /\ spent = 0
    /\ scheduled = 1 /\ objects = <<>>

\* monthly_prices.iloc[0] raises on an empty series
SingleEmptySeries ==
    /\ kind \in SingleKinds /\ pc = "ready"
    /\ pc' = "error"
    /\ UNCHANGED <<inputs, bucketPaid, singleLocals, scheduling, run, loader,
                   monthly_prices, idx, monthly_contrib, entry_price, price,
                   dcaLocals, livretLocals, results>>

\* the lines before the loop: the lump sum buys whole shares at the first
\* observation's fee-inclusive price; the // raises at a price of zero
SingleBegin ==
    /\ kind \in SingleKinds /\ pc = "ready"
    /\ \E p \in Prices :
         LET ep == BuyPrice(p) IN
         /\ monthly_prices' = <<p>>
         /\ entry_price' = ep
         /\ IF ep = 0
            THEN /\ pc' = "error"
                 /\ UNCHANGED <<singleLocals, monthly_contrib>>
            ELSE /\ pc' = "stepping"
                 /\ shares_owned' = FloorDiv(initial_cash, ep)
                 /\ available_cash' = initial_cash - FloorDiv(initial_cash, ep) * ep
                 /\ spent' = FloorDiv(initial_cash, ep) * ep
                 /\ monthly_contrib' = initial_monthly_contribution
    /\ UNCHANGED <<inputs, bucketPaid, scheduling, run, loader, idx, price,
                   dcaLocals, livretLocals, results>>

\* one iteration of the loop; the // raises at a price of zero, before
\* anything is appended
SingleStep ==
    /\ kind \in SingleKinds /\ pc = "stepping" /\ idx < MaxSteps
    /\ \E p \in Prices :
         /\ ObservationAt(p)
         /\ monthly_prices' = Reveal(p)
         /\ LET mc == single_capped_contribution(
                          bumped_contribution(monthly_contrib, idx))
                c1 == available_cash + mc
                current_price == BuyPrice(p)
            IN  IF current_price = 0
                THEN /\ pc' = "error"
                     /\ monthly_contrib' = mc
                     /\ available_cash' = c1
                     /\ UNCHANGED <<shares_owned, spent, price, idx, results>>
                ELSE LET purchasable_shares == FloorDiv(c1, current_price)
                         n == shares_owned + purchasable_shares
                         c2 == c1 - purchasable_shares * current_price
                         invested == single_total_invested(idx, mc)
                     IN  /\ pc' = pc
                         /\ monthly_contrib' = mc
                         /\ price' = current_price
                         /\ shares_owned' = n
                         /\ available_cash' = c2
                         /\ spent' = spent + purchasable_shares * current_price
                         /\ monthly_contributions' = Append(monthly_contributions, mc)
                         /\ total_invested_cash' = Append(total_invested_cash, invested)
                         /\ portfolio_values' =
                                Append(portfolio_values, n * StockPrice(p) + c2)
                         /\ exit_values' =
                                Append(exit_values, compute_exit_value(p, n, c2, invested))
                         /\ idx' = idx + 1
                         /\ UNCHANGED <<pea_invested, taxable_invested>>
    /\ UNCHANGED <<inputs, bucketPaid, scheduling, run, loader, entry_price,
                   dcaLocals, livretLocals>>

NextSingle ==
    \/ SingleEmptySeries
    \/ SingleBegin
    \/ SingleStep
    \/ Finish

\* one run of a single-account engine on a fresh object
SpecSingle == InitSingle /\ [][NextSingle]_vars

\* C24: in both single-account engines the first step records initial_cash
\* alone, step k records initial_cash plus the contributions of steps 2..k,
\* while the cash paid in (cash held plus what the shares cost) includes
\* the first contribution: the basis is lower than the cash paid in by
\* exactly the first contribution.
C24_FirstContributionNotInBasis ==
    (kind \in SingleKinds /\ idx >= 1) =>
        /\ total_invested_cash[1] = initial_cash
        /\ \A k \in 1..idx :
             total_invested_cash[k] =
                 initial_cash + SumSeq(monthly_contributions, k)
                     - monthly_contributions[1]
        /\ pc # "error" =>
             /\ available_cash + spent =
                    initial_cash + SumSeq(monthly_contributions, idx)
             /\ (available_cash + spent) - total_invested_cash[idx] =
                    monthly_contributions[1]

\* a positive first contribution is missing from the basis after later
\* contributions were counted
C24_Witness ==
    /\ kind = "Single" /\ idx >= 13 /\ NonNegativeParameters
    /\ initial_cash > 0 /\ monthly_contributions[1] > 0
    /\ monthly_contributions[idx] > monthly_contributions[1]
    /\ shares_owned > 0
    /\ total_invested_cash[idx] < available_cash + spent
    /\ exit_values[idx] < portfolio_values[idx]

C24_WitnessPassive ==
    /\ kind = "Passive" /\ idx >= 2 /\ NonNegativeParameters
    /\ monthly_contributions[1] > 0 /\ monthly_contributions[2] > 0
    /\ total_invested_cash[2] = initial_cash + monthly_contributions[2]

=============================================================================
